---- MODULE Spec2Model ----
(***************************************************************************)
(* Conversation lifecycle of the voice tour guide: the wake-word gate      *)
(* (useWakeWordDetection), the conversation link (useRealtimeAgent) and    *)
(* their composition in the Home page.  JavaScript is single threaded:     *)
(* every action below is one event-loop task (a handler run up to its     *)
(* next await, or a timer/transport callback).                             *)
(***************************************************************************)
EXTENDS Integers, Sequences, FiniteSets, TLC

(* ------------------------------ bounds --------------------------------- *)
\* quantum of simulated time, in ms
TickMs == 5000
\* connect() invocations that can be in flight / sessions tracked at once
MaxAttempts == 2
\* settle timers (setTimeout(connect, 800)) that can be pending at once
MaxSettle == 2
\* distinct setTimeout handles tracked for the silence timer
MaxTimerIds == 2
\* length of the wake word, of one recognition result, and number of results
\* of one recognition run, in the specification of the transcript match
MaxWordLen == 1
MaxSegLen == 1
MaxResults == 2
\* restart timers of handleSpeechEnd pending at once
MaxRestarts == 1
\* POST requests to the signaling endpoint and peer connections it creates
MaxRequests == 3
MaxPeers == 3

(* ------------------------- program constants --------------------------- *)
silenceTimeoutMs == 10000
SettleDelayMs == 800

Ticks(ms) == (ms + TickMs - 1) \div TickMs
SilenceTicks == Ticks(silenceTimeoutMs)
\* variant: connect() is scheduled with no delay
SettleTicksNone == Ticks(SettleDelayMs - SettleDelayMs)
SettleTicks == Ticks(SettleDelayMs)

Attempts == 1..MaxAttempts
TimerIds == 1..MaxTimerIds
Live == {"connecting", "connected"}

VARIABLES
  \* ---- useWakeWordDetection ----
  isListening, wakeWordDetected, conversationActive, speechError,
  rec,              \* the SpeechRecognition object: "inactive", "active", "stopping";
                    \* "none" when the host has none (recognitionRef.current is null)
  silenceTimerRef,  \* silenceTimerRef.current: 0 (null) or a timer handle
  timerRem,         \* handle -> ticks left of a pending timeout, -1 when not pending
  \* ---- Home ----
  settle,           \* remaining ticks of the pending setTimeout(connect, 800), oldest first
  \* ---- useRealtimeAgent ----
  isConnected, isConnecting, isSpeaking, agentError,
  isConnectingRef,  \* the synchronous lock
  sessionRef,       \* sessionRef.current: 0 (null) or a session
  att,              \* position of each connect() invocation: "idle", "fetch", "establish"
  sess,             \* session created by invocation i: "none", "connecting", "connected",
                    \* "closed", "failed"; a dead session nothing refers to is forgotten ("none")
  agentRef,         \* agentRef.current holds the RealtimeAgent
  mounted,          \* the hook's mount effect has run and its cleanup has not
  \* ---- the recognition effect and the restart timer ----
  registered,       \* state values of the render whose handlers are registered
  restart,          \* pending setTimeout(..., 100) of handleSpeechEnd
  \* ---- pages/api/webrtc/signaling (server) ----
  apiKey,           \* process.env.OPENAI_API_KEY is set
  webrtcServer, realtimeProxy,   \* the module's instances exist (are not null)
  activeSessions,   \* the Set of session ids
  peer,             \* SimplePeer objects made for the client id, in order of creation:
                    \* "none", "new", "answered", "connected", "failed", "closed"
  peers,            \* WebRTCServer.peers.get(clientId): 0 (no entry) or a peer
  req,              \* position of each POST: "unsent", "awaitSignal", "awaitSession", "done"
  resp,             \* its response: "none", "reused", "created", "e400", "e500"
  listeners,        \* sessions that had the event listeners attached
  agentPlaying, userSpeaking,   \* transport side: sessions with audio / speech in progress
  \* ---- transcript match ----
  wakeWord,         \* the wakeWord option, a string (sequence of characters)
  results,          \* event.results of the recognition run, one transcript per result;
                    \* followed only where the match itself is examined, elsewhere a
                    \* result event is taken by whether its transcript matches
  \* ---- observation ----
  turnCalls,        \* connect() calls made back to back, nothing else running in between (0..2)
  turnPassed,       \* how many of them passed the duplicate-call guard
  paused,           \* pauseSilenceTimer ran after the last wake / resumeSilenceTimer
  pausedPartway,    \* that pauseSilenceTimer cancelled a countdown part of which had
                    \* elapsed (kept for the step that resumes, then forgotten)
  pausedTicks,      \* time elapsed since the pause, saturating at 15000 ms
  matched,          \* the task that just ran was a result event whose transcript
                    \* contains the wake word
  tone,             \* the task that just ran requested the confirmation tone
  errorEvent,       \* event.error of the recognition error event the task that just
                    \* ran handled, "none" for any other task
  round             \* progress of "user speech pairs, then one agent reply":
                    \* "none", "user", "user_audio", "done"; "expired" once the
                    \* countdown has run out

gateVars == <<isListening, wakeWordDetected, conversationActive, speechError, rec>>
timerVars == <<silenceTimerRef, timerRem>>
linkVars == <<isConnected, isConnecting, isSpeaking, agentError, isConnectingRef,
              sessionRef, att, sess, listeners, agentPlaying, userSpeaking>>
obsVars == <<turnCalls, turnPassed, paused, pausedPartway, pausedTicks, matched, tone,
             errorEvent, round>>
matchVars == <<wakeWord, results>>
mountVars == <<agentRef, mounted>>
refreshVars == <<registered, restart>>
signalVars == <<apiKey, webrtcServer, realtimeProxy, activeSessions, peer, peers, req, resp>>
pageVars == <<gateVars, timerVars, settle, linkVars, mountVars, refreshVars, matchVars, obsVars>>
vars == <<pageVars, signalVars>>

(* Values of the gate's React state seen by the handlers that the          *)
(* recognition object keeps: they are registered by an effect with an      *)
(* empty dependency list, so they are the closures of the render that ran  *)
(* the effect: the first render, where every useState still has its        *)
(* initial value, unless the effect is run again (Refresh).  The same      *)
(* holds for resetSilenceTimer reached through these handlers and through  *)
(* the callbacks captured by connect (useCallback with no dependencies).   *)
FirstRender ==
  [isListening |-> FALSE, conversationActive |-> FALSE, wakeWordDetected |-> FALSE]
regIsListening == registered.isListening
regConversationActive == registered.conversationActive
regWakeWordDetected == registered.wakeWordDetected

Phase ==
  IF conversationActive THEN "ConversationActive"
  ELSE IF isListening THEN "ListeningForWake" ELSE "Idle"

Pending == {i \in TimerIds : timerRem[i] >= 0}
LiveSessions == {i \in Attempts : sess[i] \in Live}
FreeSlots == {i \in Attempts : att[i] = "idle" /\ sess[i] \notin Live /\ sessionRef # i}

\* the hooks as constructed by the first render and the recognition effect,
\* on a host that has SpeechRecognition (supported) or has not: then there
\* is no recognition object and the effect sets the error
HooksConstructed(supported) ==
  /\ isListening = FALSE /\ wakeWordDetected = FALSE /\ conversationActive = FALSE
  /\ speechError = (IF supported THEN "null" ELSE "unsupported")
  /\ rec = (IF supported THEN "inactive" ELSE "none")
  /\ silenceTimerRef = 0 /\ timerRem = [i \in TimerIds |-> -1]
  /\ settle = <<>>
  /\ isConnected = FALSE /\ isConnecting = FALSE /\ isSpeaking = FALSE
  /\ agentError = "null" /\ isConnectingRef = FALSE /\ sessionRef = 0
  /\ att = [i \in Attempts |-> "idle"] /\ sess = [i \in Attempts |-> "none"]
  /\ listeners = {} /\ agentPlaying = {} /\ userSpeaking = {}
  /\ turnCalls = 0 /\ turnPassed = 0
  /\ paused = FALSE /\ pausedPartway = FALSE /\ pausedTicks = 0 /\ matched = FALSE /\ tone = FALSE
  /\ errorEvent = "none"
  /\ round = "none"
  /\ registered = FirstRender /\ restart = 0

\* the signaling module as loaded: no instances, no session; the
\* environment has the API key (key) or has not
Requests == 1..MaxRequests
PeerIds == 1..MaxPeers
ClientId == "client"
ServerStarted(key) ==
  /\ apiKey = key
  /\ webrtcServer = FALSE /\ realtimeProxy = FALSE
  /\ activeSessions = {}
  /\ peer = [p \in PeerIds |-> "none"] /\ peers = 0
  /\ req = [r \in Requests |-> "unsent"] /\ resp = [r \in Requests |-> "none"]

\* the hooks on a host with speech recognition
InitHooks == HooksConstructed(TRUE)

(* --------------------------- transcript match -------------------------- *)
\* characters: a letter in both cases and the blank
Chars == {"g", "G", " "}
Strings(n) == UNION {[1..k -> Chars] : k \in 0..n}
\* String.prototype.toLowerCase
LowerChar(c) == IF c = "G" THEN "g" ELSE c
toLowerCase(s) == [i \in 1..Len(s) |-> LowerChar(s[i])]
\* results.map(...).join("")
RECURSIVE join(_)
join(rs) == IF rs = <<>> THEN <<>> ELSE Head(rs) \o join(Tail(rs))
\* String.prototype.trim
RECURSIVE trimStart(_)
trimStart(s) == IF s # <<>> /\ Head(s) = " " THEN trimStart(Tail(s)) ELSE s
RECURSIVE trimEnd(_)
trimEnd(s) ==
  IF s # <<>> /\ s[Len(s)] = " " THEN trimEnd(SubSeq(s, 1, Len(s) - 1)) ELSE s
trim(s) == trimEnd(trimStart(s))
\* String.prototype.includes
includes(s, w) == \E i \in 0..(Len(s) - Len(w)) : SubSeq(s, i + 1, i + Len(w)) = w
\* the transcript handleSpeechResult builds from event.results
transcript(rs) == trim(toLowerCase(join(rs)))
\* the third conjunct of the wake test
TranscriptMatches(rs, w) == includes(transcript(rs), toLowerCase(w))
\* the page's wake word ("guide" unless configured), in the model's characters
PageWakeWord == <<"g">>

\* the page once its mount effects have run: the agent exists
Init ==
  /\ InitHooks /\ agentRef = TRUE /\ mounted = TRUE /\ wakeWord = PageWakeWord /\ results = <<>>
  /\ ServerStarted(TRUE)

(* ------------------------- SpeechRecognition --------------------------- *)
\* recognition.stop(): no effect unless started
RecStop(r) == IF r = "active" THEN "stopping" ELSE r
\* recognition.start() throws InvalidStateError unless fully stopped
RecStartThrows(r) == r # "inactive"

(* --------------------------- silence timer ----------------------------- *)
\* variant: clearing a timeout has no effect
ClearTimeoutIgnored(t, id) == t
\* clearTimeout(silenceTimerRef.current)
ClearTimeout(t, id) == IF id = 0 THEN t ELSE [t EXCEPT ![id] = -1]

FreeIds(t, ref) == {i \in TimerIds : i # ref /\ t[i] = -1}
NewId(t, ref) == CHOOSE i \in FreeIds(t, ref) : \A j \in FreeIds(t, ref) : i <= j

\* variant: schedules the new timeout without clearing the old one
ResetTimersNoClear(t, ref) == [t EXCEPT ![NewId(ClearTimeout(t, ref), ref)] = SilenceTicks]
\* resetSilenceTimer: clear the referenced timeout, schedule a full one
ResetTimers(t, ref) ==
  LET t1 == ClearTimeout(t, ref)
  IN [t1 EXCEPT ![NewId(t1, ref)] = SilenceTicks]
ResetRef(t, ref) == NewId(ClearTimeout(t, ref), ref)

resetSilenceTimer ==
  /\ FreeIds(ClearTimeout(timerRem, silenceTimerRef), silenceTimerRef) # {}
  /\ timerRem' = ResetTimers(timerRem, silenceTimerRef)
  /\ silenceTimerRef' = ResetRef(timerRem, silenceTimerRef)

\* variant: forgets the handle without clearing the timeout
PauseTimersKeep(t, ref) == t
\* pauseSilenceTimer: clear the referenced timeout and forget the handle
PauseTimers(t, ref) == ClearTimeout(t, ref)
pauseSilenceTimer ==
  /\ timerRem' = PauseTimers(timerRem, silenceTimerRef)
  /\ silenceTimerRef' = 0

resumeSilenceTimer == resetSilenceTimer


(* ------------------------------ helpers -------------------------------- *)
Min(a, b) == IF a < b THEN a ELSE b
SeqDec(q) == [k \in 1..Len(q) |-> q[k] - 1]
\* time observed while paused saturates at the 15000 ms of the scenario
PausedCap == Ticks(15000)
\* what the referenced handle still has to run (-1: nothing pending behind it)
RefRemaining == IF silenceTimerRef = 0 THEN -1 ELSE timerRem[silenceTimerRef]

\* observation updates shared by the tasks
ObsPause ==
  /\ paused' = TRUE
  /\ pausedPartway' = (RefRemaining > 0 /\ RefRemaining < SilenceTicks)
  /\ pausedTicks' = 0
ObsStart ==
  /\ paused' = FALSE
  /\ pausedTicks' = 0
ObsPauseKeep ==
  /\ pausedPartway' = (paused /\ pausedPartway)
  /\ UNCHANGED <<paused, pausedTicks>>
\* a task that is not a recognition event and plays no tone
NoSound == matched' = FALSE /\ tone' = FALSE /\ errorEvent' = "none"
\* the expiry is observed in the state it leaves, then forgotten
RoundKept == IF round = "expired" THEN "none" ELSE round
ObsTurnEnd ==
  /\ turnCalls' = 0
  /\ turnPassed' = 0
\* a task that neither calls connect() nor pauses / starts the countdown
ObsOther ==
  /\ NoSound
  /\ ObsTurnEnd
  /\ ObsPauseKeep
  /\ round' = RoundKept

(* --------------------------- useRealtimeAgent -------------------------- *)
\* session.close(): the connect() that made the session may still await it
CloseState(s, a) == IF s = "connecting" /\ a = "establish" THEN "closed" ELSE "none"
\* variant: the referenced session is dropped without being closed
CloseRefSkipped(ss, ref) == ss
\* disconnect() closes the session sessionRef holds, if any
CloseRef(ss, ref) == IF ref = 0 THEN ss ELSE [ss EXCEPT ![ref] = CloseState(@, att[ref])]

\* Invocations and their sessions are kept oldest first.  A record is in use
\* while its connect() is in flight, its session is live, or sessionRef
\* holds its session; the others are dropped and the later ones move up.
Used(a, s, r) == {i \in Attempts : a[i] # "idle" \/ s[i] \in Live \/ r = i}
Rank(U, i) == Cardinality({j \in U : j <= i})
Slot(U, k) == CHOOSE i \in U : Rank(U, i) = k
\* the link's invocations, sessions and reference become a, s, r, with
\* listeners on l, agent audio playing on p and user speech heard on u
Sessions(a, s, r, l, p, u) ==
  LET U == Used(a, s, r)
      n == Cardinality(U)
  IN /\ att' = [k \in Attempts |-> IF k <= n THEN a[Slot(U, k)] ELSE "idle"]
     /\ sess' = [k \in Attempts |-> IF k <= n THEN s[Slot(U, k)] ELSE "none"]
     /\ sessionRef' = IF r = 0 THEN 0 ELSE Rank(U, r)
     /\ listeners' = {Rank(U, i) : i \in l \cap U}
     /\ agentPlaying' = {Rank(U, i) : i \in p \cap U}
     /\ userSpeaking' = {Rank(U, i) : i \in u \cap U}

\* disconnect(): close the referenced session, reset status and lock
disconnect ==
  /\ Sessions(att, CloseRef(sess, sessionRef), 0, listeners \ {sessionRef},
              agentPlaying \ {sessionRef}, userSpeaking \ {sessionRef})
  /\ isConnected' = FALSE
  /\ isConnecting' = FALSE
  /\ isSpeaking' = FALSE
  /\ isConnectingRef' = FALSE
  /\ UNCHANGED agentError

\* variant: every call is turned away
ConnectRejectedAlways(lock, ref) == TRUE
\* variant: only the lock turns a call away
ConnectRejectedOnLock(lock, ref) == lock
\* the duplicate-call guard of connect()
ConnectRejected(lock, ref) == lock \/ ref # 0
\* variant: the lock is only set after the first await
LockAfterAwait == FALSE
\* value of the lock when connect() reaches its first await
LockAtFirstAwait == TRUE

NewSlot == CHOOSE a \in FreeSlots : \A b \in FreeSlots : a <= b

\* variant: the agent check is skipped
AgentMissingIgnored(ref) == FALSE
\* the agent check of connect()
AgentMissing(ref) == ~ref

\* connect() up to its first await (the token fetch)
connect ==
  IF AgentMissing(agentRef)
  THEN /\ agentError' = "not_initialized"
       /\ UNCHANGED <<isConnected, isConnecting, isSpeaking, isConnectingRef, sessionRef,
                      att, sess, listeners, agentPlaying, userSpeaking>>
       /\ turnPassed' = turnPassed
  ELSE IF ConnectRejected(isConnectingRef, sessionRef)
  THEN /\ UNCHANGED linkVars
       /\ turnPassed' = turnPassed
  ELSE /\ FreeSlots # {}
       /\ isConnectingRef' = LockAtFirstAwait
       /\ isConnecting' = TRUE
       /\ agentError' = "null"
       /\ att' = [att EXCEPT ![NewSlot] = "fetch"]
       /\ sess' = [sess EXCEPT ![NewSlot] = "none"]
       /\ listeners' = listeners \ {NewSlot}
       /\ UNCHANGED <<isConnected, isSpeaking, sessionRef, agentPlaying, userSpeaking>>
       /\ turnPassed' = Min(turnPassed + 1, 2)

\* variant: the catch block swallows the error
ConnectCatchSilent(msg) ==
  /\ agentError' = agentError
  /\ isConnecting' = FALSE
  /\ isConnectingRef' = FALSE
\* variant: the catch block leaves the lock set
ConnectCatchKeepsLock(msg) ==
  /\ agentError' = msg
  /\ isConnecting' = FALSE
  /\ isConnectingRef' = isConnectingRef
\* the catch block of connect()
ConnectCatch(msg) ==
  /\ agentError' = msg
  /\ isConnecting' = FALSE
  /\ isConnectingRef' = FALSE

\* variant: an invocation whose awaited call failed requests a token again
AfterFailureRetries == "fetch"
\* where an invocation is after its catch block: it has returned
AfterFailure == "idle"

\* the token fetch of invocation a completes, with a token (ok) or not
FetchSettles(a, ok) ==
  /\ att[a] = "fetch"
  /\ IF ok
       THEN \* new RealtimeSession(...), then await its connect()
            /\ sessionRef' = a
            /\ sess' = [sess EXCEPT ![a] = "connecting"]
            /\ att' = [att EXCEPT ![a] = "establish"]
            /\ UNCHANGED <<isConnected, isConnecting, isSpeaking, agentError,
                           isConnectingRef, listeners, agentPlaying, userSpeaking>>
       ELSE /\ ConnectCatch("token")
            /\ Sessions([att EXCEPT ![a] = AfterFailure], sess, sessionRef, listeners,
                        agentPlaying, userSpeaking)
            /\ UNCHANGED <<isConnected, isSpeaking>>
  /\ ObsOther
  /\ UNCHANGED <<gateVars, timerVars, settle, mountVars, refreshVars, signalVars, matchVars>>
FetchDone(a) == \E ok \in BOOLEAN : FetchSettles(a, ok)

\* session.connect() of invocation a resolves (ok) or rejects
EstablishSettles(a, ok) ==
  /\ att[a] = "establish"
  /\ IF ok /\ sessionRef # 0
       THEN \* the listeners go on whatever sessionRef.current is now
            LET s1 == [sess EXCEPT ![a] = IF @ = "connecting" THEN "connected" ELSE "none"]
                l1 == IF s1[sessionRef] \in Live
                      THEN listeners \cup {sessionRef} ELSE listeners
            IN /\ Sessions([att EXCEPT ![a] = "idle"], s1, sessionRef, l1,
                           agentPlaying, userSpeaking)
               /\ isConnected' = TRUE
               /\ isConnecting' = FALSE
               /\ UNCHANGED <<isSpeaking, agentError, isConnectingRef>>
       ELSE \* rejected, or resolved with sessionRef.current already null
            LET s1 == [sess EXCEPT ![a] =
                         IF @ # "connecting" THEN "none"
                         ELSE IF ok THEN "connected"
                         ELSE IF sessionRef = a THEN "failed" ELSE "none"]
            IN /\ Sessions([att EXCEPT ![a] = AfterFailure], s1, sessionRef, listeners,
                           agentPlaying, userSpeaking)
               /\ ConnectCatch(IF ok THEN "null_session" ELSE "establish")
               /\ UNCHANGED <<isConnected, isSpeaking>>
  /\ ObsOther
  /\ UNCHANGED <<gateVars, timerVars, settle, mountVars, refreshVars, signalVars, matchVars>>
EstablishDone(a) == \E ok \in BOOLEAN : EstablishSettles(a, ok)

(* ------------------------- useWakeWordDetection ------------------------ *)
\* the wake guard as the registered onresult handler evaluates it
WakeGuard == ~regConversationActive /\ ~regWakeWordDetected
\* the restart condition as the registered onend handler evaluates it
handleSpeechEndRestarts == regIsListening /\ ~regConversationActive
\* the restart condition as the silence timeout callback evaluates it
TimeoutRestarts == regIsListening

\* variant: the wake is silent
playWakeWordSoundSkipped == tone' = FALSE
\* playWakeWordSound: a new AudioContext plays the two-tone cue
playWakeWordSound == tone' = TRUE

\* handleSpeechResult for a transcript that does (matches) or does not
\* contain the wake word; results still arrive while the engine is stopping
handleSpeechResultOn(matches) ==
  /\ rec \in {"active", "stopping"}
  /\   IF WakeGuard /\ matches
       THEN \* a slot is left for the connect() this wake schedules
            /\ Len(settle) < MaxSettle
            /\ Cardinality(FreeSlots) > Len(settle)
            /\ wakeWordDetected' = TRUE
            /\ conversationActive' = TRUE
            /\ rec' = RecStop(rec)
            /\ matched' = TRUE
            /\ playWakeWordSound
            /\ resetSilenceTimer
            \* onWakeWordDetected: setTimeout(() => connect(), 800)
            /\ settle' = Append(settle, SettleTicks)
            /\ ObsStart
            /\ pausedPartway' = FALSE
            /\ round' = "none"
            /\ UNCHANGED <<isListening, speechError>>
       ELSE /\ ObsPauseKeep
            /\ matched' = matches
            /\ tone' = FALSE
            /\ round' = RoundKept
            /\ UNCHANGED <<gateVars, timerVars, settle>>
  /\ errorEvent' = "none"
  /\ ObsTurnEnd
  /\ UNCHANGED <<linkVars, mountVars, refreshVars, signalVars>>

\* a result event, taken by whether its transcript contains the wake word
handleSpeechResult ==
  /\ \E matches \in BOOLEAN : handleSpeechResultOn(matches)
  /\ UNCHANGED matchVars

\* the recognition stream ends (after stop(), or by itself): onend
handleSpeechEnd ==
  /\ rec \in {"active", "stopping"}
  /\ rec' = "inactive"
  /\ IF handleSpeechEndRestarts
     THEN \* setTimeout(..., 100)
          /\ restart < MaxRestarts
          /\ restart' = restart + 1
     ELSE restart' = restart
  /\ ObsOther
  /\ UNCHANGED <<isListening, wakeWordDetected, conversationActive, speechError,
                 timerVars, settle, linkVars, mountVars, registered, signalVars, matchVars>>

\* the timer handleSpeechEnd set fires: its test repeats, on the values the
\* handler captured, the test that set it, so only a missing recognition
\* object stops it; a failing start() is caught and logged
RestartFire ==
  /\ restart > 0
  /\ restart' = restart - 1
  /\ rec' = IF rec # "none" /\ ~RecStartThrows(rec) THEN "active" ELSE rec
  /\ ObsOther
  /\ UNCHANGED <<isListening, wakeWordDetected, conversationActive, speechError,
                 timerVars, settle, linkVars, mountVars, registered, signalVars, matchVars>>

startListening ==
  IF rec = "none"
  THEN /\ speechError' = "null"
       /\ UNCHANGED <<isListening, rec>>
  ELSE IF RecStartThrows(rec)
  THEN /\ speechError' = "start_failed"
       /\ UNCHANGED <<isListening, rec>>
  ELSE /\ speechError' = "null"
       /\ rec' = "active"
       /\ isListening' = TRUE

stopListening ==
  /\ rec' = RecStop(rec)
  /\ isListening' = FALSE
  /\ conversationActive' = FALSE
  /\ wakeWordDetected' = FALSE
  /\ timerRem' = ClearTimeout(timerRem, silenceTimerRef)
  /\ UNCHANGED <<speechError, silenceTimerRef>>

\* variant: the timeout does not tear the link down
onConversationTimeoutNoop == UNCHANGED linkVars
\* the callbacks Home passes to useWakeWordDetection
onConversationTimeout == disconnect

\* the callback of the silence timeout with handle id
SilenceTimeout(id) ==
  /\ timerRem[id] = 0
  /\ timerRem' = [timerRem EXCEPT ![id] = -1]
  /\ conversationActive' = FALSE
  /\ wakeWordDetected' = FALSE
  /\ rec' = IF TimeoutRestarts /\ ~RecStartThrows(rec) THEN "active" ELSE rec
  /\ onConversationTimeout
  /\ NoSound
  /\ ObsTurnEnd
  /\ ObsPauseKeep
  /\ round' = "expired"
  /\ UNCHANGED <<isListening, speechError, silenceTimerRef, settle, mountVars, refreshVars, signalVars, matchVars>>

(* --------------------------------- Home -------------------------------- *)
handleToggleListening ==
  /\ IF isListening
     THEN /\ stopListening
          /\ disconnect
     ELSE /\ startListening
          /\ UNCHANGED <<wakeWordDetected, conversationActive, timerVars, linkVars>>
  /\ ObsOther
  /\ UNCHANGED <<settle, mountVars, refreshVars, signalVars, matchVars>>

\* the settle delay of the oldest pending wake has elapsed: connect()
SettleFire ==
  /\ settle # <<>>
  /\ Head(settle) = 0
  /\ settle' = Tail(settle)
  /\ connect
  /\ turnCalls' = Min(turnCalls + 1, 2)
  /\ NoSound
  /\ ObsPauseKeep
  /\ round' = RoundKept
  /\ UNCHANGED <<gateVars, timerVars, mountVars, refreshVars, signalVars, matchVars>>

\* the error Home shows: agentError || speechError
error == IF agentError # "null" THEN agentError ELSE speechError

\* the callbacks Home passes to useRealtimeAgent
onAudioStart == pauseSilenceTimer
onAudioStopped == resumeSilenceTimer
onUserSpeechStart == pauseSilenceTimer
\* variant: the countdown is resumed as soon as the user stops talking
onUserSpeechStopResumes == resumeSilenceTimer
onUserSpeechStop == UNCHANGED timerVars

\* boundary events of session i
CanEmit(i) == i \in listeners /\ sess[i] = "connected"

AudioStart(i) ==
  /\ CanEmit(i) /\ i \notin agentPlaying
  /\ agentPlaying' = agentPlaying \cup {i}
  /\ isSpeaking' = TRUE
  /\ onAudioStart
  /\ NoSound
  /\ ObsPause
  /\ ObsTurnEnd
  /\ round' = IF round = "user" /\ userSpeaking = {} THEN "user_audio" ELSE "none"
  /\ UNCHANGED <<gateVars, settle, mountVars, refreshVars, signalVars, matchVars, isConnected, isConnecting, agentError, isConnectingRef,
                 sessionRef, att, sess, listeners, userSpeaking>>

AudioStopped(i) ==
  /\ CanEmit(i) /\ i \in agentPlaying
  /\ agentPlaying' = agentPlaying \ {i}
  /\ isSpeaking' = FALSE
  /\ onAudioStopped
  /\ NoSound
  /\ ObsStart
  /\ pausedPartway' = pausedPartway
  /\ ObsTurnEnd
  /\ round' = IF round = "user_audio" THEN "done" ELSE "none"
  /\ UNCHANGED <<gateVars, settle, mountVars, refreshVars, signalVars, matchVars, isConnected, isConnecting, agentError, isConnectingRef,
                 sessionRef, att, sess, listeners, userSpeaking>>

UserSpeechStart(i) ==
  /\ CanEmit(i) /\ i \notin userSpeaking
  /\ userSpeaking' = userSpeaking \cup {i}
  /\ onUserSpeechStart
  /\ NoSound
  /\ ObsPause
  /\ ObsTurnEnd
  /\ round' = IF round = "user" /\ userSpeaking = {} THEN "user" ELSE "none"
  /\ UNCHANGED <<gateVars, settle, mountVars, refreshVars, signalVars, matchVars, isConnected, isConnecting, isSpeaking, agentError,
                 isConnectingRef, sessionRef, att, sess, listeners, agentPlaying>>

UserSpeechStop(i) ==
  /\ CanEmit(i) /\ i \in userSpeaking
  /\ userSpeaking' = userSpeaking \ {i}
  /\ onUserSpeechStop
  /\ NoSound
  /\ ObsPauseKeep
  /\ ObsTurnEnd
  /\ round' = IF agentPlaying = {} /\ userSpeaking = {i}
                   /\ round \in {"none", "user", "done", "expired"}
              THEN "user" ELSE "none"
  /\ UNCHANGED <<gateVars, settle, mountVars, refreshVars, signalVars, matchVars, isConnected, isConnecting, isSpeaking,
                 agentError, isConnectingRef, sessionRef, att, sess, listeners,
                 agentPlaying>>

(* --------------------------------- time -------------------------------- *)
\* TickMs pass: only when no pending timeout is due
Tick ==
  /\ \A i \in Pending : timerRem[i] > 0
  /\ \A k \in 1..Len(settle) : settle[k] > 0
  /\ timerRem' = [i \in TimerIds |-> IF timerRem[i] > 0 THEN timerRem[i] - 1 ELSE timerRem[i]]
  /\ settle' = SeqDec(settle)
  /\ pausedTicks' = IF paused THEN Min(pausedTicks + 1, PausedCap) ELSE 0
  /\ pausedPartway' = (paused /\ pausedPartway)
  /\ NoSound
  /\ ObsTurnEnd
  /\ UNCHANGED <<gateVars, silenceTimerRef, linkVars, mountVars, refreshVars, signalVars, matchVars, paused, round>>

Next ==
  \/ handleToggleListening
  \/ handleSpeechResult
  \/ handleSpeechEnd
  \/ \E id \in TimerIds : SilenceTimeout(id)
  \/ SettleFire
  \/ \E a \in Attempts : FetchDone(a)
  \/ \E a \in Attempts : EstablishDone(a)
  \/ \E i \in Attempts : AudioStart(i)
  \/ \E i \in Attempts : AudioStopped(i)
  \/ \E i \in Attempts : UserSpeechStart(i)
  \/ \E i \in Attempts : UserSpeechStop(i)
  \/ Tick

Spec == Init /\ [][Next]_vars

TypeOK ==
  /\ rec \in {"inactive", "active", "stopping", "none"}
  /\ silenceTimerRef \in 0..MaxTimerIds
  /\ Len(settle) <= MaxSettle
  /\ sessionRef \in 0..MaxAttempts
  /\ restart \in 0..MaxRestarts
  /\ activeSessions \subseteq {ClientId}
  /\ peers \in 0..MaxPeers

\* time passes, due timers fire, awaited calls settle, a stopped recognition ends
Fairness ==
  /\ WF_vars(Tick)
  /\ WF_vars(rec = "stopping" /\ handleSpeechEnd)
  /\ WF_vars(\E id \in TimerIds : SilenceTimeout(id))
  /\ WF_vars(SettleFire)
  /\ WF_vars(\E a \in Attempts : FetchDone(a))
  /\ WF_vars(\E a \in Attempts : EstablishDone(a))

FairSpec == Spec /\ Fairness

\* The page in its orderly runs: the engine delivers no result once stop()
\* has been called, and connect() is never called while an earlier call is
\* still awaiting (each awaited call settles before the next settle delay
\* runs out).  In these runs no wake happens while listening is switched
\* off, and an invocation in flight with the lock clear is one that
\* disconnect() has overtaken.
NextOrderly ==
  \/ handleToggleListening
  \/ rec = "active" /\ handleSpeechResult
  \/ handleSpeechEnd
  \/ \E id \in TimerIds : SilenceTimeout(id)
  \/ (\A a \in Attempts : att[a] = "idle") /\ SettleFire
  \/ \E a \in Attempts : FetchDone(a)
  \/ \E a \in Attempts : EstablishDone(a)
  \/ \E i \in Attempts : AudioStart(i)
  \/ \E i \in Attempts : AudioStopped(i)
  \/ \E i \in Attempts : UserSpeechStart(i)
  \/ \E i \in Attempts : UserSpeechStop(i)
  \/ Tick

OrderlySpec == Init /\ [][NextOrderly]_vars

\* The page with nothing stopping a conversation: the user only switches
\* listening on, the token fetch and session.connect() succeed, and the
\* silence timeout does not run before the link is up.
NextUndisturbed ==
  \/ ~isListening /\ handleToggleListening
  \/ handleSpeechResult
  \/ handleSpeechEnd
  \/ SettleFire
  \/ \E a \in Attempts : FetchSettles(a, TRUE)
  \/ \E a \in Attempts : EstablishSettles(a, TRUE)
  \/ \E i \in Attempts : AudioStart(i)
  \/ \E i \in Attempts : AudioStopped(i)
  \/ \E i \in Attempts : UserSpeechStart(i)
  \/ \E i \in Attempts : UserSpeechStop(i)
  \/ Tick

FairnessUndisturbed ==
  /\ WF_vars(Tick)
  /\ WF_vars(SettleFire)
  /\ WF_vars(\E a \in Attempts : FetchSettles(a, TRUE))
  /\ WF_vars(\E a \in Attempts : EstablishSettles(a, TRUE))

UndisturbedSpec == Init /\ [][NextUndisturbed]_vars /\ FairnessUndisturbed

(* ------------------------ the gate, any configuration ------------------ *)
\* The gate with any wake word, on a host with or without speech
\* recognition, its result events followed transcript by transcript: the
\* engine appends a result to event.results and delivers the list; start()
\* begins a new list.
InitGate ==
  /\ \E supported \in BOOLEAN : HooksConstructed(supported)
  /\ agentRef = TRUE /\ mounted = TRUE
  /\ wakeWord \in Strings(MaxWordLen) /\ results = <<>>
  /\ ServerStarted(TRUE)

ResultEvent ==
  /\ Len(results) < MaxResults
  /\ \E seg \in Strings(MaxSegLen) :
       /\ results' = Append(results, seg)
       /\ handleSpeechResultOn(TranscriptMatches(results', wakeWord))
  /\ wakeWord' = wakeWord

\* the toggle; a started recognition has no results yet
ToggleGate ==
  /\ IF isListening
     THEN /\ stopListening
          /\ disconnect
          /\ results' = results
     ELSE /\ startListening
          /\ results' = IF RecStartThrows(rec) THEN results ELSE <<>>
          /\ UNCHANGED <<wakeWordDetected, conversationActive, timerVars, linkVars>>
  /\ ObsOther
  /\ UNCHANGED <<settle, mountVars, refreshVars, signalVars, wakeWord>>

\* event.error values: the routine one and one other
ErrorCodes == {"no-speech", "network"}
\* variant: no error is routine
IsRoutineNever(err) == FALSE
\* the test of handleSpeechError
IsRoutine(err) == err = "no-speech"

\* onerror of a running recognition; it writes the error text only, which
\* nothing in the page-level specifications reads
handleSpeechError(err) ==
  /\ rec \in {"active", "stopping"}
  /\ errorEvent' = err
  /\ speechError' = IF IsRoutine(err) THEN speechError ELSE err
  /\ matched' = FALSE /\ tone' = FALSE
  /\ ObsTurnEnd
  /\ ObsPauseKeep
  /\ round' = RoundKept
  /\ UNCHANGED <<isListening, wakeWordDetected, conversationActive, rec,
                 timerVars, settle, linkVars, mountVars, refreshVars, signalVars, matchVars>>

NextGate ==
  \/ ToggleGate
  \/ ResultEvent
  \/ handleSpeechEnd
  \/ \E err \in ErrorCodes : handleSpeechError(err)

GateSpec == InitGate /\ [][NextGate]_vars

(* ------------------- the gate, its effect run again -------------------- *)
\* Fast Refresh runs the cleanup of the recognition effect and then the
\* effect again, with the handlers of the current render, on a new
\* recognition object; state and refs are kept.  Followed here while the
\* old object is at rest, so that it delivers no further event.
Refresh ==
  /\ rec = "inactive"
  /\ timerRem' = ClearTimeout(timerRem, silenceTimerRef)
  /\ registered' = [isListening |-> isListening,
                    conversationActive |-> conversationActive,
                    wakeWordDetected |-> wakeWordDetected]
  /\ ObsOther
  /\ UNCHANGED <<gateVars, silenceTimerRef, settle, linkVars, mountVars, restart, signalVars, matchVars>>

NextRefresh ==
  \/ handleToggleListening
  \/ handleSpeechResult
  \/ handleSpeechEnd
  \/ RestartFire
  \/ Refresh

RefreshSpec == Init /\ [][NextRefresh]_vars

(* ---------------------- useRealtimeAgent on its own --------------------- *)
\* The hook driven by any component: connect() and disconnect() are called
\* in any order, also before the effect that creates the agent has run.
\* the hook as constructed, its effect not yet run
InitLink ==
  /\ InitHooks /\ agentRef = FALSE /\ mounted = FALSE /\ wakeWord = PageWakeWord /\ results = <<>>
  /\ ServerStarted(TRUE)

\* the mount effect: create the RealtimeAgent unless it exists
AgentInit ==
  /\ ~mounted
  /\ agentRef' = TRUE
  /\ mounted' = TRUE
  /\ ObsOther
  /\ UNCHANGED <<gateVars, timerVars, settle, linkVars, refreshVars, signalVars, matchVars>>

CallConnect ==
  /\ connect
  /\ turnCalls' = Min(turnCalls + 1, 2)
  /\ NoSound
  /\ ObsPauseKeep
  /\ round' = RoundKept
  /\ UNCHANGED <<gateVars, timerVars, settle, mountVars, refreshVars, signalVars, matchVars>>

CallDisconnect ==
  /\ disconnect
  /\ ObsOther
  /\ UNCHANGED <<gateVars, timerVars, settle, mountVars, refreshVars, signalVars, matchVars>>

NextLink ==
  \/ AgentInit
  \/ CallConnect
  \/ CallDisconnect
  \/ \E a \in Attempts : FetchDone(a)
  \/ \E a \in Attempts : EstablishDone(a)

LinkSpec == InitLink /\ [][NextLink]_vars

(* ------------------- useRealtimeAgent, torn down and re-created --------- *)
\* the cleanup the mount effect returns: close the referenced session and
\* clear the lock; the agent and the status values are left as they are
Cleanup ==
  /\ mounted
  /\ Sessions(att, CloseRef(sess, sessionRef), 0, listeners \ {sessionRef},
              agentPlaying \ {sessionRef}, userSpeaking \ {sessionRef})
  /\ isConnectingRef' = FALSE
  /\ mounted' = FALSE
  /\ ObsOther
  /\ UNCHANGED <<isConnected, isConnecting, isSpeaking, agentError, agentRef,
                 gateVars, timerVars, settle, refreshVars, signalVars, matchVars>>

\* Strict Mode, hot reload: the effect is cleaned up and run again (AgentInit)
NextMount ==
  \/ NextLink
  \/ Cleanup

MountSpec == InitLink /\ [][NextMount]_vars


(* -------------------- pages/api/webrtc/signaling.ts --------------------- *)
\* The endpoint under POST requests that all carry the same clientId.  A
\* failure of createPeerConnection is taken to reach the endpoint through
\* the peer's error event.
LivePeer == {"new", "answered", "connected"}
NewPeer == CHOOSE p \in PeerIds : peer[p] = "none" /\ \A q \in PeerIds : peer[q] = "none" => p <= q

\* activeSessions.has(sessionId)
SessionActive(a, id) == id \in a

\* variant: the timeout rejects without removing the session id
TimeoutKeepsSession(a, id) == a
\* the signaling timeout: activeSessions.delete(sessionId)
TimeoutDeletes(a, id) == a \ {id}

\* request r arrives, with signal data or without: the handler up to its
\* first await, or to its response
Post(r, signal) ==
  /\ req[r] = "unsent"
  /\ r > 1 => req[r - 1] # "unsent"
  /\ webrtcServer' = TRUE
  /\ IF ~apiKey
     THEN \* initializeServers throws
          /\ req' = [req EXCEPT ![r] = "done"]
          /\ resp' = [resp EXCEPT ![r] = "e500"]
          /\ UNCHANGED <<realtimeProxy, activeSessions, peer, peers>>
     ELSE /\ realtimeProxy' = TRUE
          /\ IF ~signal
             THEN /\ req' = [req EXCEPT ![r] = "done"]
                  /\ resp' = [resp EXCEPT ![r] = "e400"]
                  /\ UNCHANGED <<activeSessions, peer, peers>>
             ELSE IF SessionActive(activeSessions, ClientId)
             THEN /\ req' = [req EXCEPT ![r] = "done"]
                  /\ resp' = [resp EXCEPT ![r] = "reused"]
                  /\ UNCHANGED <<activeSessions, peer, peers>>
             ELSE \* createPeerConnection, then wait for the answer signal
                  /\ \E p \in PeerIds : peer[p] = "none"
                  /\ activeSessions' = activeSessions \cup {ClientId}
                  /\ peer' = [peer EXCEPT ![NewPeer] = "new"]
                  /\ peers' = NewPeer
                  /\ req' = [req EXCEPT ![r] = "awaitSignal"]
                  /\ resp' = resp
  /\ UNCHANGED <<apiKey, pageVars>>

\* peer p emits "signal": every request waiting for a signal of the client
\* id takes it as its answer, clears its timeout and goes on to
\* createSession
PeerSignal(p) ==
  /\ peer[p] \in LivePeer
  /\ peer[p] = "new" \/ \E r \in Requests : req[r] = "awaitSignal"
  /\ peer' = [peer EXCEPT ![p] = IF @ = "new" THEN "answered" ELSE @]
  /\ req' = [r \in Requests |-> IF req[r] = "awaitSignal" THEN "awaitSession" ELSE req[r]]
  /\ UNCHANGED <<apiKey, webrtcServer, realtimeProxy, activeSessions, peers, resp, pageVars>>

\* the 10 s timeout of request r: the session id is removed, the promise
\* rejects and the catch block answers 500; the peer is left as it is
SignalTimeout(r) ==
  /\ req[r] = "awaitSignal"
  /\ activeSessions' = TimeoutDeletes(activeSessions, ClientId)
  /\ req' = [req EXCEPT ![r] = "done"]
  /\ resp' = [resp EXCEPT ![r] = "e500"]
  /\ UNCHANGED <<apiKey, webrtcServer, realtimeProxy, peer, peers, pageVars>>

\* createSession of request r settles; a failure is logged and ignored
SessionSettles(r) ==
  /\ req[r] = "awaitSession"
  /\ req' = [req EXCEPT ![r] = "done"]
  /\ resp' = [resp EXCEPT ![r] = "created"]
  /\ UNCHANGED <<apiKey, webrtcServer, realtimeProxy, activeSessions, peer, peers, pageVars>>

\* peer p connects: onConnectionStateChange("connected") only logs
PeerConnect(p) ==
  /\ peer[p] = "answered"
  /\ peer' = [peer EXCEPT ![p] = "connected"]
  /\ UNCHANGED <<apiKey, webrtcServer, realtimeProxy, activeSessions, peers, req, resp, pageVars>>

\* peer p emits "error": onError removes the session id
PeerError(p) ==
  /\ peer[p] \in LivePeer
  /\ peer' = [peer EXCEPT ![p] = "failed"]
  /\ activeSessions' = activeSessions \ {ClientId}
  /\ UNCHANGED <<apiKey, webrtcServer, realtimeProxy, peers, req, resp, pageVars>>

\* peer p emits "close": the entry of the client id is dropped from the
\* peers map, whichever peer it holds, and onConnectionStateChange("closed")
\* removes the session id
PeerClose(p) ==
  /\ peer[p] \in LivePeer \cup {"failed"}
  /\ peer' = [peer EXCEPT ![p] = "closed"]
  /\ peers' = 0
  /\ activeSessions' = IF realtimeProxy THEN activeSessions \ {ClientId} ELSE activeSessions
  /\ UNCHANGED <<apiKey, webrtcServer, realtimeProxy, req, resp, pageVars>>

InitSignal ==
  /\ InitHooks /\ agentRef = TRUE /\ mounted = TRUE /\ wakeWord = PageWakeWord /\ results = <<>>
  /\ \E key \in BOOLEAN : ServerStarted(key)

NextSignal ==
  \/ \E r \in Requests, signal \in BOOLEAN : Post(r, signal)
  \/ \E p \in PeerIds : PeerSignal(p)
  \/ \E r \in Requests : SignalTimeout(r)
  \/ \E r \in Requests : SessionSettles(r)
  \/ \E p \in PeerIds : PeerConnect(p)
  \/ \E p \in PeerIds : PeerError(p)
  \/ \E p \in PeerIds : PeerClose(p)

SignalSpec == InitSignal /\ [][NextSignal]_vars

(* ------------------------- steps, as seen in state ---------------------- *)
\* a silence timeout callback runs
TimeoutStep ==
  /\ \E id \in TimerIds : timerRem[id] = 0 /\ timerRem'[id] = -1
  /\ silenceTimerRef' = silenceTimerRef
  /\ isListening' = isListening
\* stopListening() runs (from the toggle)
StopStep == isListening /\ ~isListening'
\* disconnect() runs: from the timeout callback or from the toggle
DisconnectStep == TimeoutStep \/ (isListening /\ ~isListening')
\* the hook at rest: status Disconnected, lock clear, no session object
Disconnected ==
  /\ ~isConnected /\ ~isConnecting /\ ~isSpeaking
  /\ ~isConnectingRef /\ sessionRef = 0
\* an error event is delivered
ErrorStep == errorEvent' # "none"
\* a result event is delivered
ResultStep == Len(results') = Len(results) + 1
\* the wake callback runs (it schedules a connect())
WakeStep == Len(settle') > Len(settle)
\* invocations of connect() awaiting the token / awaiting session.connect()
InFetch == {a \in Attempts : att[a] = "fetch"}
InEstablish == {a \in Attempts : att[a] = "establish"}
InFlight == InFetch \cup InEstablish
\* an invocation is in flight although the lock it took has been cleared
Overtaken == InFlight # {} /\ ~isConnectingRef
\* the one invocation in flight is not competing with another's session
SoleAttempt ==
  /\ Cardinality(InFetch) + Cardinality(InEstablish) = 1
  /\ LiveSessions \subseteq {sessionRef}
  /\ isConnectingRef /\ ~isConnected
\* a token fetch ends without a token
FetchFailStep ==
  /\ Cardinality(InFetch') < Cardinality(InFetch)
  /\ Cardinality(InEstablish') = Cardinality(InEstablish)
\* an awaited session.connect() rejects
EstablishFailStep ==
  /\ Cardinality(InEstablish') < Cardinality(InEstablish)
  /\ Cardinality(LiveSessions') < Cardinality(LiveSessions)
\* connect() is invoked
ConnectCallStep == turnCalls' > 0
\* boundary events of a session
AudioStartStep == sess' = sess /\ agentPlaying' # agentPlaying /\ agentPlaying \subseteq agentPlaying'
AudioStoppedStep == sess' = sess /\ agentPlaying' # agentPlaying /\ agentPlaying' \subseteq agentPlaying
UserSpeechStartStep == sess' = sess /\ userSpeaking' # userSpeaking /\ userSpeaking \subseteq userSpeaking'
UserSpeechStopStep == sess' = sess /\ userSpeaking' # userSpeaking /\ userSpeaking' \subseteq userSpeaking
BoundaryStep == AudioStartStep \/ AudioStoppedStep \/ UserSpeechStartStep \/ UserSpeechStopStep
\* a fresh full-duration countdown is scheduled
CountdownStarted ==
  /\ silenceTimerRef' # 0
  /\ silenceTimerRef' # silenceTimerRef
  /\ timerRem'[silenceTimerRef'] = SilenceTicks

(* -------------------------------- claims ------------------------------- *)

\* C1: the listening device is never active while the connection status is
\* Connected.
C1_DeviceNotActiveWhileConnected == ~(rec = "active" /\ isConnected)

\* C2: at most one session is live (created and not closed) at any time.
C2_AtMostOneLiveSession == Cardinality(LiveSessions) <= 1

\* C3: of the connect() calls made back to back in one turn at most one passes
\* the lock check, and once one has passed the lock is held, so that only
\* that call can go on to establish a session.
C3_OnePassPerTurn ==
  /\ turnPassed <= 1
  /\ turnPassed = 1 => isConnectingRef
C3_Witness == turnCalls = 2 /\ turnPassed = 1

\* C4: while the phase is ConversationActive no transcript fires the wake
\* callback.
C4_NoWakeWhileConversationActive == [][conversationActive => ~WakeStep]_vars

\* C5: no countdown is pending while the user is speaking or agent audio is
\* playing.
C5_NoCountdownDuringActivity ==
  (userSpeaking # {} \/ agentPlaying # {}) => Pending = {}

\* C6: among the boundary events only agent-audio-stopped starts a countdown,
\* and it leaves exactly one; user-speech-started, user-speech-stopped and
\* agent-audio-started start none.
C6_OnlyAudioStoppedStarts ==
  [][BoundaryStep =>
       /\ CountdownStarted <=> AudioStoppedStep
       /\ AudioStoppedStep => Cardinality(Pending') = 1
       /\ UserSpeechStopStep => UNCHANGED timerVars]_vars
C6_Witness == round = "done" /\ RefRemaining = SilenceTicks /\ Cardinality(Pending) = 1

\* C7: resumeSilenceTimer leaves exactly one pending countdown, of the full
\* duration; pauseSilenceTimer with nothing pending leaves the countdowns, the
\* gate's state and the connection as they are.
C7_ResumeIsFreshFull ==
  [][/\ AudioStoppedStep =>
          /\ Cardinality(Pending') = 1
          /\ Pending' = {silenceTimerRef'}
          /\ timerRem'[silenceTimerRef'] = SilenceTicks
     /\ ((AudioStartStep \/ UserSpeechStartStep) /\ Pending = {}) =>
          /\ Pending' = {}
          /\ UNCHANGED <<gateVars, settle>>]_vars
C7_Witness ==
  /\ ~paused
  /\ pausedPartway
  /\ Pending = {silenceTimerRef}
  /\ RefRemaining = SilenceTicks

\* C8: between pauseSilenceTimer and the next resumeSilenceTimer or wake
\* detection no countdown is pending and no timeout callback runs.
C8_PausedNeverExpires ==
  [][paused => (Pending = {} /\ ~TimeoutStep)]_vars
C8_Witness == paused /\ pausedTicks = PausedCap /\ conversationActive /\ isConnected

\* C9: a silence timeout in a conversation started from the listening state
\* clears the flags, disconnects and re-activates the listening device.
C9_TimeoutRestartsListening ==
  [][(TimeoutStep /\ isListening) =>
       /\ ~conversationActive' /\ ~wakeWordDetected'
       /\ ~isConnected' /\ ~isConnecting' /\ sessionRef' = 0
       /\ rec' = "active"]_vars

\* C11: a transcript containing the wake word that arrives while the gate
\* listens for it (listening, no conversation, device active) does all of this
\* in one step: the wake callback runs once (one connect() is scheduled), the
\* device is told to stop, the tone is requested, the phase becomes
\* ConversationActive and one fresh full-duration countdown is pending.
C11_WakeStepEffects ==
  [][(matched' /\ isListening /\ ~conversationActive /\ rec = "active") =>
       /\ Len(settle') = Len(settle) + 1
       /\ settle'[Len(settle')] = Ticks(SettleDelayMs)
       /\ rec' = "stopping"
       /\ tone'
       /\ conversationActive' /\ wakeWordDetected' /\ isListening'
       /\ CountdownStarted
       /\ Pending' = {silenceTimerRef'}
       /\ timerRem'[silenceTimerRef'] = Ticks(silenceTimeoutMs)]_vars
C11_Witness ==
  /\ matched /\ tone /\ Phase = "ConversationActive" /\ isListening
  /\ rec = "stopping" /\ Len(settle) = 1
  /\ Pending = {silenceTimerRef} /\ RefRemaining = SilenceTicks

\* C12: connect() is invoked only by the timer the wake callback sets: the
\* wake step tells the device to stop and schedules it with the full settle
\* delay, the delay only runs down with time, and connect() runs when it is
\* used up, never earlier.
C12_ConnectAfterSettleDelay ==
  [][/\ WakeStep => /\ settle' = Append(settle, Ticks(SettleDelayMs))
                    /\ rec' # "active"
     /\ ConnectCallStep => /\ settle # <<>>
                           /\ Head(settle) = 0
                           /\ settle' = Tail(settle)
     /\ (Len(settle') = Len(settle) /\ settle' # settle) =>
          /\ \A k \in 1..Len(settle) : settle[k] > 0 /\ settle'[k] = settle[k] - 1
          /\ UNCHANGED <<gateVars, linkVars>>]_vars
C12_Witness ==
  /\ turnCalls = 1 /\ turnPassed = 1 /\ att[1] = "fetch"
  /\ conversationActive /\ rec # "active"
  /\ RefRemaining = SilenceTicks - Ticks(SettleDelayMs)

\* C13: with nothing stopping the conversation and both awaited calls
\* succeeding, a wake detection is followed by a scheduled connect() and the
\* status becomes Connected.
C13_WakeLeadsToConnected ==
  /\ [][WakeStep => settle' # <<>>]_vars
  /\ (settle # <<>>) ~> isConnected
C13_Witness ==
  /\ isConnected /\ conversationActive /\ settle = <<>>
  /\ sessionRef # 0 /\ sess[sessionRef] = "connected" /\ sessionRef \in listeners

\* C14: matching transcripts in close succession schedule connect() at most
\* once for the conversation they start.
C14_OneConnectPerWakeCycle == conversationActive => Len(settle) <= 1

C17_NotInitializedFailsFast ==
  [][(ConnectCallStep /\ ~agentRef) =>
       /\ agentError' = "not_initialized"
       /\ UNCHANGED <<isConnectingRef, isConnecting, isConnected, isSpeaking,
                      sessionRef, att, sess, listeners, agentRef>>]_vars
C17_Witness ==
  /\ ~agentRef /\ turnCalls = 1 /\ turnPassed = 0
  /\ agentError = "not_initialized"
  /\ ~isConnectingRef /\ ~isConnecting /\ sessionRef = 0
  /\ InFetch = {} /\ LiveSessions = {}

\* C18: in every reachable state, status Connected implies that the
\* connection lock is set and a session object exists.
C18_ConnectedImpliesLockAndSession ==
  isConnected => (isConnectingRef /\ sessionRef # 0)

\* C19: a connect() call made while the lock is set or a session object
\* exists changes nothing: status, lock, session and error stay as they
\* are and no token request is started.
C19_DuplicateConnectIsSilent ==
  [][(ConnectCallStep /\ (isConnectingRef \/ sessionRef # 0)) =>
       /\ UNCHANGED <<isConnected, isConnecting, isSpeaking, agentError>>
       /\ UNCHANGED <<isConnectingRef, sessionRef, sess, listeners>>
       /\ att' = att /\ turnPassed' = turnPassed]_vars
C19_Witness ==
  /\ agentRef /\ turnCalls = 1 /\ turnPassed = 0
  /\ ~isConnectingRef /\ sessionRef # 0 /\ sess[sessionRef] = "failed"
  /\ agentError = "establish" /\ InFetch = {} /\ InEstablish = {}

\* C20: disconnect() from any state leaves the hook Disconnected with
\* the lock clear and no session object, having closed the session it
\* held; it sets no error, and called on a hook already at rest it
\* changes nothing.
C20_DisconnectIdempotent ==
  [][DisconnectStep =>
       /\ Disconnected'
       /\ agentError' = agentError
       /\ Cardinality(LiveSessions') = Cardinality(LiveSessions \ {sessionRef})
       /\ Disconnected => UNCHANGED linkVars]_vars
C20_Witness ==
  /\ ~isListening /\ Disconnected
  /\ \E i \in Attempts : sess[i] = "closed" /\ att[i] = "establish"

\* C21: an invocation of connect() that disconnect() has overtaken at either
\* await never sets the status to Connected, and once it has ended no live
\* session is left.
C21_OvertakenAttemptNotApplied ==
  [][Overtaken => (~isConnected' /\ (InFlight' = {} => LiveSessions' = {}))]_vars

\* C22: a boundary event delivered while the hook is at rest after
\* disconnect() (status Disconnected, lock clear, no session object) neither
\* pauses nor starts a countdown and changes no component state.
C22_EventsIgnoredAfterDisconnect ==
  [][(BoundaryStep /\ Disconnected) =>
       UNCHANGED <<gateVars, timerVars, settle, isConnected, isConnecting, isSpeaking,
                   agentError, isConnectingRef, sessionRef>>]_vars

\* C23: stopListening() leaves the device not active, no countdown pending,
\* the phase Idle and the wake flag clear; while listening stays switched off
\* and no wake has happened since, no timeout callback runs.
C23_StopCancelsEverything ==
  [][/\ StopStep => /\ rec' # "active"
                    /\ Pending' = {}
                    /\ Phase' = "Idle" /\ ~wakeWordDetected'
     /\ ~isListening => ~TimeoutStep]_vars

\* C24: when the recognition stream has ended while the gate listens for
\* the wake phrase, the device becomes active again (unless the gate leaves
\* that phase first); a stream that ended during a conversation is not
\* restarted while the conversation lasts (other than by the user's toggle).
C24_RestartWhileListeningForWake ==
  /\ (Phase = "ListeningForWake" /\ rec = "inactive")
        ~> (rec = "active" \/ Phase # "ListeningForWake")
  /\ [][(conversationActive /\ conversationActive' /\ isListening' = isListening
          /\ rec # "active") => rec' # "active"]_vars

\* C25: the listening device is active exactly when the phase is
\* ListeningForWake.
C25_DeviceActiveIffListeningForWake ==
  (rec = "active") <=> (Phase = "ListeningForWake")

\* C26: at most one silence countdown is pending, and it is the one the
\* handle refers to; starting a countdown leaves only the new one pending;
\* the countdown whose callback runs is the referenced one, never one that
\* was cancelled or superseded.
C26_AtMostOneCountdown ==
  /\ [](Cardinality(Pending) <= 1 /\ Pending \subseteq {silenceTimerRef})
  /\ [][/\ CountdownStarted => Pending' = {silenceTimerRef'}
        /\ TimeoutStep => (silenceTimerRef # 0 /\ timerRem[silenceTimerRef] = 0)]_vars
C26_Witness ==
  /\ silenceTimerRef = 2 /\ Pending = {2} /\ timerRem[1] = -1
  /\ RefRemaining = SilenceTicks /\ conversationActive

\* C27: a result event delivered while the gate listens for the wake phrase
\* raises a wake exactly when the lower-cased wake word is a substring of the
\* lower-cased concatenation of the results so far; when it raises none it
\* changes no state.
C27_WakeIffSubstring ==
  [][(ResultStep /\ isListening /\ ~conversationActive /\ rec = "active") =>
       /\ WakeStep <=> includes(toLowerCase(join(results')), toLowerCase(wakeWord))
       /\ ~WakeStep => UNCHANGED <<gateVars, timerVars, settle, linkVars>>]_vars

\* C28: on a host without speech recognition a startListening() call (there
\* the only call that changes anything) leaves the gate not listening and
\* the unsupported-capability error in the error state.
C28_UnsupportedErrorPersists ==
  [][rec = "none" => (~isListening' /\ rec' = "none" /\ speechError' = "unsupported")]_vars

\* C29: a recognition error event other than "no-speech" sets the gate's
\* error state; "no-speech" leaves the error state and everything else as it
\* is; no error event changes the phase, the device or the countdown.
C29_ErrorEventOnlySetsError ==
  [][ErrorStep =>
       /\ speechError' = (IF errorEvent' = "no-speech" THEN speechError ELSE errorEvent')
       /\ UNCHANGED <<isListening, wakeWordDetected, conversationActive, rec,
                      timerVars, settle, linkVars>>]_vars
C29_Witness ==
  /\ errorEvent = "network" /\ speechError = "network"
  /\ conversationActive /\ isListening /\ RefRemaining = SilenceTicks

\* C30: a token is requested only in a connect() call, one that a wake
\* event scheduled; a session is established only by an invocation whose
\* token request has completed, once; an awaited call that fails ends its
\* invocation and starts nothing.
C30_NoAutomaticRetry ==
  [][/\ Cardinality(InFetch') > Cardinality(InFetch) =>
          /\ ConnectCallStep /\ Len(settle') = Len(settle) - 1
          /\ Cardinality(InFetch') = Cardinality(InFetch) + 1
          /\ Cardinality(InEstablish') = Cardinality(InEstablish)
     /\ Cardinality(InEstablish') > Cardinality(InEstablish) =>
          /\ Cardinality(InEstablish') = Cardinality(InEstablish) + 1
          /\ Cardinality(InFetch') = Cardinality(InFetch) - 1
     /\ (FetchFailStep \/ EstablishFailStep) =>
          Cardinality(InFlight') = Cardinality(InFlight) - 1]_vars
C30_Witness ==
  /\ agentError = "establish" /\ InFlight = {} /\ settle = <<>>
  /\ conversationActive /\ RefRemaining = 0 /\ ~isConnected

\* C31: a component's error, once set, is not reset to null by any operation
\* (the clear action aside, which none of the runs here invokes).
C31_ErrorPersists ==
  [][/\ speechError # "null" => speechError' # "null"
     /\ agentError # "null" => agentError' # "null"]_vars

\* C32: the merged error is the component error surfaced last: when a
\* component sets a new error, the merged error is that error; and the merged
\* error is null only when both component errors are null.
C32_MergedErrorLastWins ==
  /\ [](error = "null" <=> (agentError = "null" /\ speechError = "null"))
  /\ [][/\ (speechError' # speechError /\ speechError' # "null") => error' = speechError'
        /\ (agentError' # agentError /\ agentError' # "null") => error' = agentError']_vars

\* C33: the teardown of the link leaves no session live, the lock clear and
\* the agent in place, so that the next connect() passes both guards
CleanupStep == mounted /\ ~mounted'
C33_TeardownClosesAndUnblocks ==
  [][CleanupStep =>
       /\ LiveSessions' = {}
       /\ agentRef' /\ ~AgentMissing(agentRef')
       /\ ~ConnectRejected(isConnectingRef', sessionRef')]_vars

\* C34: once the user has stopped listening (phase Idle), the connect() a
\* wake scheduled earlier is not carried out: no token is requested and the
\* status does not become Connecting or Connected.
C34_StopCancelsScheduledConnect ==
  [][Phase = "Idle" =>
       /\ InFetch' \subseteq InFetch
       /\ ~isConnecting => ~isConnecting'
       /\ ~isConnected => ~isConnected']_vars

\* C35: a restart timer that fires re-activates the device only if the
\* gate is listening for the wake phrase at that moment: after a
\* stopListening() or a wake during the delay it leaves the device alone.
RestartStep == restart' < restart
C35_RestartUsesCurrentPhase ==
  [][(RestartStep /\ rec' = "active") => Phase = "ListeningForWake"]_vars

\* C36: the connection status is Connecting or Connected only while the
\* gate's phase is ConversationActive.
C36_LinkOnlyInConversation ==
  (isConnecting \/ isConnected) => Phase = "ConversationActive"

\* C37: a silence countdown is pending only while the phase is
\* ConversationActive, and the timeout callback runs in no other phase.
C37_CountdownOnlyInConversation ==
  [][/\ Pending' # {} => Phase' = "ConversationActive"
     /\ TimeoutStep => Phase = "ConversationActive"]_vars

\* C38: with no connect() in flight and the lock clear, sessionRef holds no
\* session, so the guard of the next connect() lets it through.
C38_ClearLockMeansNoSession ==
  (InFlight = {} /\ ~isConnectingRef) =>
     /\ sessionRef = 0
     /\ ~ConnectRejected(isConnectingRef, sessionRef)

\* C39: no timeout callback runs while a connect() is scheduled (settle
\* delay) or while the status is Connecting.
C39_NoTimeoutWhileConnecting ==
  [][TimeoutStep => (settle = <<>> /\ ~isConnecting)]_vars

\* C40: a peer connection is created only by a request that finds the
\* session id not active, and that request makes it active; a request that
\* arrives with signal data while the id is active is answered reused and
\* creates nothing; every signaling timeout, peer error and peer close
\* leaves the id out of the active set, and a request that then arrives with
\* signal data creates a peer connection.
PeerCreatedStep == \E p \in PeerIds : peer[p] = "none" /\ peer'[p] # "none"
ArrivesStep(r) == req[r] = "unsent" /\ req'[r] # "unsent" /\ resp'[r] # "e400"
AttemptEndsStep ==
  \/ \E r \in Requests : req[r] = "awaitSignal" /\ resp'[r] = "e500"
  \/ \E p \in PeerIds : peer'[p] # peer[p] /\ peer'[p] \in {"failed", "closed"}
C40_OnePeerPerActiveSession ==
  [][/\ PeerCreatedStep => /\ ClientId \notin activeSessions
                            /\ ClientId \in activeSessions'
     /\ \A r \in Requests :
          (ArrivesStep(r) /\ ClientId \in activeSessions) =>
             /\ resp'[r] = "reused"
             /\ ~PeerCreatedStep
     /\ AttemptEndsStep => ClientId \notin activeSessions'
     /\ \A r \in Requests :
          (ArrivesStep(r) /\ apiKey /\ ClientId \notin activeSessions) =>
             PeerCreatedStep]_vars
C40_Witness ==
  /\ resp[1] = "e500" /\ peer[1] = "closed"
  /\ resp[2] = "created" /\ peer[2] = "connected"
  /\ resp[3] = "reused"

====
